---- MODULE Spec2Model ----
(***************************************************************************)
(* Model of src/main.py: the markdown-to-PDF gateway.                      *)
(*                                                                         *)
(* State: the wall clock (seconds), the in-memory map pdf_files            *)
(* (filename -> expiry), the directory static/pdfs (filename -> bytes),    *)
(* the sweeper task cleanup_old_files (its wake-up time), the request      *)
(* handlers of POST /text-input (each suspended at most once, at the       *)
(* awaited upstream call) and the result of the last GET /pdfs/<name> or   *)
(* sweep cycle.                                                            *)
(***************************************************************************)
EXTENDS Integers, Sequences, FiniteSets, TLC

\* ---------------------------------------------------------------- bounds
MaxRequests == 2      \* POST /text-input requests over the run
MaxClock == 3601      \* the clock stops here (seconds)

\* ------------------------------------------------------ program constants
MAX_TEXT_LEN == 100000   \* main.py:226
TTL_SECONDS == 3600      \* main.py:214  timedelta(hours=1)
SLEEP_SECONDS == 600     \* main.py:195

Requests == 1..MaxRequests
\* values of uuid.uuid4().hex[:8]
Tokens == {"0a1b2c3d", "deadbeef"}
Lens == {MAX_TEXT_LEN, MAX_TEXT_LEN + 1}
Accepts == {"application/json", "*/*"}
Contents == {"pdfA", "pdfB"}
\* bytes left in a file whose write raised after open(..., "wb") truncated it
Truncated == "trunc"

\* What the awaited client.post delivers: a response with a status code and a
\* body, or a raised httpx.RequestError / httpx.TimeoutException.
UpstreamStatuses == {200, 404, 503}
NoUpstream == [kind |-> "none", status_code |-> 0, content |-> ""]
UpstreamResults ==
    [kind : {"response"}, status_code : {200}, content : Contents]
    \cup [kind : {"response"}, status_code : UpstreamStatuses \ {200}, content : {"oops"}]
    \cup [kind : {"RequestError", "TimeoutException"}, status_code : {0}, content : {""}]

\* Outcomes of open(filepath, "wb") / f.write(pdf_content), main.py:210-211
WriteOutcomes == {"ok", "open_fail", "write_fail"}

\* ----------------------------------------------------------- file names
\* main.py:205-206  f"doc_{timestamp}_{uuid.uuid4().hex[:8]}.pdf": the
\* timestamp has second resolution, the token is random.
strftime(now) == now
MakeFilename(now, token) == [ts |-> strftime(now), tok |-> token]
NoFile == [ts |-> 0 - 1, tok |-> ""]

\* main.py:217  f"{request.base_url}pdfs/{filename}"
BaseUrl == "http://host/"
MakeUrl(base, filename) == <<base, "pdfs", filename>>
NoUrl == <<"", "", NoFile>>
\* main.py:37  the mount at /pdfs strips the prefix and looks the rest up
MountedName(url) == IF url[2] = "pdfs" THEN url[3] ELSE NoFile

VARIABLES
    clock,      \* datetime.now(), in seconds
    wake,       \* when the sleep of cleanup_old_files ends
    sweeper,    \* the task cleanup_old_files: "sleeping" between cycles, or
                \* "dead" once an exception has left its loop
    pdf_files,  \* main.py:40  filename -> expiry time
    files,      \* the directory static/pdfs: filename -> bytes
    req,        \* the handlers of POST /text-input
    last,       \* the last step taken and what it answered
    pubs        \* the (url, content) pairs published since the last sweep cycle

vars == <<clock, wake, sweeper, pdf_files, files, req, last, pubs>>

\* ------------------------------------------------------------ exceptions
HTTPException(code, det) == [exc |-> "HTTPException", status_code |-> code, detail |-> det]
OSError(msg) == [exc |-> "OSError", status_code |-> 0, detail |-> <<msg>>]
NoException == [exc |-> "none", status_code |-> 0, detail |-> <<>>]
\* str(e): starlette's HTTPException prints "<status_code>: <detail>"
StrOf(e) ==
    IF e.exc = "HTTPException" THEN <<ToString(e.status_code), ": ">> \o e.detail
    ELSE e.detail

\* ------------------------------------------------------- Artifact Store
Restrict(f, S) == [x \in S |-> f[x]]
\* main.py:214  pdf_files[filename] = datetime.now() + timedelta(hours=1)
Register(store, filename, now) ==
    [x \in DOMAIN store \cup {filename} |->
        IF x = filename THEN now + TTL_SECONDS ELSE store[x]]
\* main.py:210-211  open(filepath, "wb") creates or truncates, write fills
WriteFile(dir, filename, bytes) ==
    [x \in DOMAIN dir \cup {filename} |-> IF x = filename THEN bytes ELSE dir[x]]
\* mutants of Expired: the comparison off by one either way
Expired_AtExpiry(now, expiry) == now >= expiry
Expired_Late(now, expiry) == now > expiry + 1
\* main.py:182  current_time > expiry_time
Expired(now, expiry) == now > expiry

\* --------------------------------------------------- Static File Server
\* mutant of StaticGet: a server that consults the store's expiry times
StaticGet_ChecksExpiry(dir, name) ==
    IF name \in DOMAIN dir /\ (name \in DOMAIN pdf_files => ~(clock > pdf_files[name]))
    THEN [status |-> 200, body |-> dir[name]]
    ELSE [status |-> 404, body |-> ""]
\* main.py:37  StaticFiles(directory=PDF_DIR): the file if it is there, else 404
StaticGet(dir, name) ==
    IF name \in DOMAIN dir THEN [status |-> 200, body |-> dir[name]]
    ELSE [status |-> 404, body |-> ""]

\* ---------------------------------------------------- Artifact Publisher
\* mutant of save_pdf_get_url: the entry is registered before the file is written
save_pdf_get_url_RegistersFirst(pdf_content, base, dir, store, now1, now2, token, w) ==
    LET filename == MakeFilename(now1, token)
        written  == CASE w = "ok"         -> WriteFile(dir, filename, pdf_content)
                      [] w = "write_fail" -> WriteFile(dir, filename, Truncated)
                      [] OTHER            -> dir
    IN  [raised |-> IF w # "ok" THEN OSError(w) ELSE NoException, files |-> written,
         pdf_files |-> Register(store, filename, now2),
         filename |-> filename,
         url |-> IF w # "ok" THEN NoUrl ELSE MakeUrl(base, filename)]
\* mutant of save_pdf_get_url: the file is written but never registered
save_pdf_get_url_SkipsRegister(pdf_content, base, dir, store, now1, now2, token, w) ==
    LET filename == MakeFilename(now1, token)
        written  == CASE w = "ok"         -> WriteFile(dir, filename, pdf_content)
                      [] w = "write_fail" -> WriteFile(dir, filename, Truncated)
                      [] OTHER            -> dir
    IN  [raised |-> IF w # "ok" THEN OSError(w) ELSE NoException, files |-> written,
         pdf_files |-> store, filename |-> filename,
         url |-> IF w # "ok" THEN NoUrl ELSE MakeUrl(base, filename)]
\* main.py:202-217.  now1 and now2 are the two readings of datetime.now();
\* w is what open/write do.  Returns the exception raised (or none), the
\* directory and the store as the call leaves them, and the URL.
save_pdf_get_url(pdf_content, base, dir, store, now1, now2, token, w) ==
    LET filename == MakeFilename(now1, token)
        written  == CASE w = "ok"         -> WriteFile(dir, filename, pdf_content)
                      [] w = "write_fail" -> WriteFile(dir, filename, Truncated)
                      [] OTHER            -> dir
    IN  IF w # "ok"
        THEN [raised |-> OSError(w), files |-> written, pdf_files |-> store,
              filename |-> filename, url |-> NoUrl]
        ELSE [raised |-> NoException, files |-> written,
              pdf_files |-> Register(store, filename, now2),
              filename |-> filename, url |-> MakeUrl(base, filename)]

\* ------------------------------------------------------ POST /text-input
\* mutant of TooLarge: the limit off by one
TooLarge_OffByOne(n) == n > MAX_TEXT_LEN + 1
\* main.py:226  len(markdown_req.text) > 100000
TooLarge(n) == n > MAX_TEXT_LEN
\* main.py:228-231
TooLargeError == HTTPException(400, <<"Markdown content too large">>)
\* main.py:257-263
UpstreamError(u) == HTTPException(u.status_code, <<"External API error: ", u.content>>)
\* main.py:288-293: httpx.TimeoutException is a httpx.RequestError, so the
\* first clause takes both
InnerExcept(u) == HTTPException(500, <<"Request error to external API: ", u.kind>>)
\* main.py:295-300: except Exception takes every exception raised in the
\* body, the HTTPExceptions raised there included
OuterExcept(e) == HTTPException(500, <<"Error: ">> \o StrOf(e))

\* mutant of HandleUpstream: the status check of line 257 is missing
HandleUpstream_NoStatusCheck(u, base, dir, store, now1, now2, token, w) ==
    IF u.kind # "response"
    THEN [raised |-> InnerExcept(u), files |-> dir, pdf_files |-> store,
          filename |-> NoFile, url |-> NoUrl]
    ELSE save_pdf_get_url(u.content, base, dir, store, now1, now2, token, w)
\* main.py:254-293: what the handler does with the upstream result u, up to
\* the exception it raises inside the outer try (or none).
HandleUpstream(u, base, dir, store, now1, now2, token, w) ==
    IF u.kind # "response"
    THEN [raised |-> InnerExcept(u), files |-> dir, pdf_files |-> store,
          filename |-> NoFile, url |-> NoUrl]
    ELSE IF u.status_code # 200
    THEN [raised |-> UpstreamError(u), files |-> dir, pdf_files |-> store,
          filename |-> NoFile, url |-> NoUrl]
    ELSE save_pdf_get_url(u.content, base, dir, store, now1, now2, token, w)

\* main.py:274-287: the JSON with the URL, or the PDF bytes
SuccessBody(accept, pdf_url, pdf_content) ==
    IF accept = "application/json" THEN <<"json", pdf_url>> ELSE <<"pdf", pdf_content>>
NoBody == <<"", "">>

NewReq == [pc |-> "new", calls |-> 0]

LastNone == [op |-> "none", r |-> 0, name |-> NoFile, status |-> 0, detail |-> <<>>,
             body |-> NoBody, failed |-> {}, removed |-> {}, len |-> 0, calls |-> 0,
             upstream |-> NoUpstream, wrote |-> "none", text |-> <<>>]

Init ==
    /\ clock = 0
    /\ wake = 0
    /\ sweeper = "sleeping"
    /\ pdf_files = [x \in {} |-> 0]
    /\ files = [x \in {} |-> ""]
    /\ req = [r \in Requests |-> NewReq]
    /\ last = LastNone
    /\ pubs = {}

\* main.py:220-252: the request arrives (requests are numbered in the order
\* they arrive); an oversized text raises inside the outer try, anything else
\* is posted upstream and the handler suspends.
Receive(r, n) ==
    /\ req[r].pc = "new"
    /\ \A q \in Requests : q < r => req[q].pc # "new"
    /\ IF TooLarge(n)
       THEN LET e == OuterExcept(TooLargeError)
            IN  /\ req' = [req EXCEPT ![r].pc = "done"]
                /\ last' = [LastNone EXCEPT !.op = "reject", !.r = r, !.len = n,
                               !.status = e.status_code, !.detail = e.detail]
       ELSE /\ req' = [req EXCEPT ![r] = [pc |-> "awaiting", calls |-> req[r].calls + 1]]
            /\ last' = [LastNone EXCEPT !.op = "post", !.r = r, !.len = n, !.calls = 1]
    /\ UNCHANGED <<clock, wake, sweeper, pdf_files, files, pubs>>

\* main.py:254-300: the upstream call returns u (or raises); on 200 the
\* content is published, d seconds passing between the two datetime.now();
\* the response is the JSON with the URL or the PDF bytes (by the request's
\* Accept header, which line 274 reads only now), or the error the outer
\* except makes of whatever was raised.
Respond(r, u, accept, token, w, d) ==
    /\ req[r].pc = "awaiting"
    /\ clock + d <= MaxClock
    /\ LET publishes == u.kind = "response" /\ u.status_code = 200
           now2 == IF publishes /\ w = "ok" THEN clock + d ELSE clock
           h == HandleUpstream(u, BaseUrl, files, pdf_files, clock, now2, token, w)
           e == OuterExcept(h.raised)
       IN  /\ publishes \/ (token = "deadbeef" /\ w = "ok" /\ accept = "*/*")
           /\ (publishes /\ w = "ok") \/ d = 0
           /\ files' = h.files
           /\ pdf_files' = h.pdf_files
           /\ clock' = now2
           /\ req' = [req EXCEPT ![r].pc = "done"]
           /\ IF h.raised.exc # "none"
              THEN /\ last' = [LastNone EXCEPT !.op = "respond", !.r = r,
                                  !.calls = req[r].calls, !.upstream = u,
                                  !.status = e.status_code, !.detail = e.detail,
                                  !.name = h.filename,
                                  !.wrote = IF publishes THEN w ELSE "none"]
                   /\ pubs' = pubs
              ELSE /\ last' = [LastNone EXCEPT !.op = "respond", !.r = r,
                                  !.calls = req[r].calls, !.upstream = u,
                                  !.status = 200, !.name = h.filename, !.wrote = w,
                                  !.body = SuccessBody(accept, h.url, u.content)]
                   /\ pubs' = pubs \cup {[url |-> h.url, content |-> u.content]}
    /\ UNCHANGED <<wake, sweeper>>

\* ----------------------------------------------------- Retention Sweeper
\* mutant of ExpiredFiles: every entry is taken for expired
ExpiredFiles_All(store, now) == DOMAIN store
\* main.py:180-183
ExpiredFiles(store, now) == {f \in DOMAIN store : Expired(now, store[f])}
\* main.py:189: what os.remove raises: FileNotFoundError when the file is not
\* there, PermissionError when the removal is denied, both OSErrors
RemoveError(dir, f, denied) ==
    IF f \notin DOMAIN dir THEN "FileNotFoundError"
    ELSE IF f \in denied THEN "PermissionError"
    ELSE "none"
RemoveRaises(dir, f, denied) == RemoveError(dir, f, denied) # "none"
OSErrors == {"FileNotFoundError", "PermissionError"}
\* mutant of Caught: the except clause names KeyError alone
Caught_KeyErrorOnly(kind) == kind = "KeyError"
\* main.py:191  except (OSError, KeyError): pass
Caught(kind) == kind \in OSErrors \/ kind = "KeyError"
\* main.py:186-192: the names whose file and entry the loop removes; an
\* OSError skips the del of line 190
Removed(store, dir, now, denied) ==
    {f \in ExpiredFiles(store, now) : ~RemoveRaises(dir, f, denied)}

\* mutant of NextWake: the sleep lasts two intervals
NextWake_Doubled(now) == now + 2 * SLEEP_SECONDS
\* main.py:195  await asyncio.sleep(600)
NextWake(now) == now + SLEEP_SECONDS

\* main.py:177-195: one cycle of cleanup_old_files, then the sleep.  The
\* cycle has no await, so it runs without interleaving.  An exception the
\* except clause does not take ends the task before it reaches the sleep.
cleanup_old_files(denied) ==
    /\ sweeper = "sleeping"
    /\ clock >= wake
    /\ denied \subseteq ExpiredFiles(pdf_files, clock)
    /\ LET expired == ExpiredFiles(pdf_files, clock)
           gone == Removed(pdf_files, files, clock, denied)
           raised == {RemoveError(files, f, denied) : f \in expired} \ {"none"}
           survives == \A kind \in raised : Caught(kind)
       IN  /\ files' = Restrict(files, DOMAIN files \ gone)
           /\ pdf_files' = Restrict(pdf_files, DOMAIN pdf_files \ gone)
           /\ last' = [LastNone EXCEPT !.op = "sweep", !.removed = gone,
                          !.failed = expired \ gone]
           /\ sweeper' = IF survives THEN "sleeping" ELSE "dead"
           /\ wake' = IF survives THEN NextWake(clock) ELSE wake
    /\ pubs' = {}
    /\ UNCHANGED <<clock, req>>

\* one cycle, whatever removals are denied
Sweep == \E denied \in SUBSET DOMAIN pdf_files : cleanup_old_files(denied)

\* ------------------------------------------------------ GET /pdfs/<name>
\* the names a client may ask for: those on disk or in the store, those of
\* the URLs handed out, and one that was never published
KnownNames ==
    DOMAIN files \cup DOMAIN pdf_files \cup {MountedName(p.url) : p \in pubs}
        \cup {NoFile}

Fetch(name) ==
    /\ LET got == StaticGet(files, name)
       IN  last' = [LastNone EXCEPT !.op = "fetch", !.name = name,
                       !.status = got.status, !.body = <<"file", got.body>>]
    /\ UNCHANGED <<clock, wake, sweeper, pdf_files, files, req, pubs>>

\* ----------------------------------------------------------------- clock
\* The clock moves on by a second from an hour mark, or by an hour; the
\* seconds in between are reached by the time a publish takes.
Tick(d) ==
    /\ clock + d <= MaxClock
    /\ d = 1 => clock % TTL_SECONDS = 0
    /\ clock' = clock + d
    /\ last' = LastNone
    /\ UNCHANGED <<wake, sweeper, pdf_files, files, req, pubs>>

Next ==
    \/ \E r \in Requests, n \in Lens : Receive(r, n)
    \/ \E r \in Requests, u \in UpstreamResults, a \in Accepts, t \in Tokens,
          w \in WriteOutcomes, d \in {0, 1} : Respond(r, u, a, t, w, d)
    \/ Sweep
    \/ \E name \in KnownNames : Fetch(name)
    \/ \E d \in {1, TTL_SECONDS} : Tick(d)

Spec == Init /\ [][Next]_vars

\* ------------------------------------------------------ punctual sweeper
\* The sweeper taken to wake on time: a cycle runs at the very second its
\* sleep ends, before anything else happens in that second, and between
\* cycles time passes to the next wake-up.  Requests arrive and are answered
\* (upstream 200, file written) up to MaxClock; the cycles go on until every
\* artifact published by then has met the two cycles after its expiry.
TimedEnd == MaxClock + TTL_SECONDS + 2 * SLEEP_SECONDS
Converted == [kind : {"response"}, status_code : {200}, content : Contents]

Pass ==
    /\ clock < wake
    /\ wake <= TimedEnd
    /\ clock' = wake
    /\ last' = LastNone
    /\ UNCHANGED <<wake, sweeper, pdf_files, files, req, pubs>>

Serve ==
    /\ clock < wake
    /\ \/ \E r \in Requests : Receive(r, MAX_TEXT_LEN)
       \/ \E r \in Requests, u \in Converted, t \in Tokens, d \in {0, 1} :
             Respond(r, u, "*/*", t, "ok", d)
    /\ clock' <= wake

\* every removal succeeds
NextTimed ==
    \/ clock = wake /\ cleanup_old_files({})
    \/ Serve
    \/ Pass

SpecTimed == Init /\ [][NextTimed]_vars

\* removals may be denied
NextSweeps ==
    \/ clock = wake /\ Sweep
    \/ Serve
    \/ Pass

SpecSweeps == Init /\ [][NextSweeps]_vars

\* ------------------------------------------------------------ /fixed-input
\* POST /fixed-input is described by the specification only (the handler is
\* not in src/main.py): a text is a sequence of characters, compared in
\* lower case with "go"; a mismatch is a client error before any upstream
\* call, a match sends the fixed markdown through the flow of /text-input.
FIXED_MARKDOWN == "# Hello World\n\nThis is a fixed markdown content."
Go == <<"g", "o">>
Texts == {<<"g", "o">>, <<"G", "O">>, <<"G", "o">>, <<"g", "O">>,
          <<"g", "o", "o">>, <<"G">>, <<"n", "o">>, <<"s", "t", "o", "p">>, <<>>}
LowerChar(c) ==
    CASE c = "G" -> "g"
      [] c = "N" -> "n"
      [] c = "O" -> "o"
      [] c = "P" -> "p"
      [] c = "S" -> "s"
      [] c = "T" -> "t"
      [] OTHER -> c
\* mutant of Lower: the text is compared as it came
Lower_Identity(text) == text
Lower(text) == [i \in DOMAIN text |-> LowerChar(text[i])]
InvalidInput == HTTPException(400, <<"Invalid input">>)

fixed_input(r, text) ==
    /\ req[r].pc = "new"
    /\ \A q \in Requests : q < r => req[q].pc # "new"
    /\ IF Lower(text) # Go
       THEN /\ req' = [req EXCEPT ![r].pc = "done"]
            /\ last' = [LastNone EXCEPT !.op = "reject", !.r = r, !.text = text,
                           !.status = InvalidInput.status_code,
                           !.detail = InvalidInput.detail]
       ELSE /\ ~TooLarge(Len(FIXED_MARKDOWN))
            /\ req' = [req EXCEPT ![r] = [pc |-> "awaiting", calls |-> req[r].calls + 1]]
            /\ last' = [LastNone EXCEPT !.op = "post", !.r = r, !.text = text,
                           !.len = Len(FIXED_MARKDOWN), !.calls = 1]
    /\ UNCHANGED <<clock, wake, sweeper, pdf_files, files, pubs>>

NextFixed ==
    \/ \E r \in Requests, text \in Texts : fixed_input(r, text)
    \/ \E r \in Requests, u \in UpstreamResults, a \in Accepts, t \in Tokens,
          w \in WriteOutcomes, d \in {0, 1} : Respond(r, u, a, t, w, d)

SpecFixed == Init /\ [][NextFixed]_vars

\* The event loop runs a task that is ready: a cycle whose sleep is over is
\* eventually run.
\* The fetches of /pdfs change nothing the sweeper reads and are left out.
NextLive ==
    \/ \E r \in Requests, n \in Lens : Receive(r, n)
    \/ \E r \in Requests, u \in UpstreamResults, a \in Accepts, t \in Tokens,
          w \in WriteOutcomes, d \in {0, 1} : Respond(r, u, a, t, w, d)
    \/ Sweep
    \/ \E d \in {1, TTL_SECONDS} : Tick(d)

SpecLive == Init /\ [][NextLive]_vars /\ WF_vars(Sweep)

\* ------------------------------------------------------------------------
\* Steps, as the properties below name them
SweepStep == wake' # wake
Responded(r) == req[r].pc = "awaiting" /\ req'[r].pc = "done"
Arrived(r) == req[r].pc = "new" /\ req'[r].pc # "new"
UpstreamOk(u) == u.kind = "response" /\ u.status_code = 200
NotFound == [status |-> 404, body |-> ""]

\* C1: POST /text-input answers a non-200 upstream response with that same
\* upstream status code.
C1_UpstreamStatusPropagated ==
    (last.op = "respond" /\ last.upstream.kind = "response"
        /\ last.upstream.status_code # 200)
    => last.status = last.upstream.status_code

\* C2: every POST /text-input whose text is longer than 100,000 characters
\* is answered with status 400.
C2_OversizedIs400 ==
    (last.op \in {"reject", "post"} /\ last.len > MAX_TEXT_LEN)
    => (last.op = "reject" /\ last.status = 400)

\* C3 (as claimed): GET /pdfs/<filename> answers 404 whenever the artifact is
\* absent, swept or expired (now > expires_at), also before the next sweep.
C3_ExpiredOrAbsentIs404 ==
    (last.op = "fetch"
        /\ (\/ last.name \notin DOMAIN files
            \/ (last.name \in DOMAIN pdf_files /\ clock > pdf_files[last.name])))
    => last.status = 404

\* C3 (amended): GET /pdfs/<filename> answers 404 exactly when no file of
\* that name is in the directory, and otherwise serves the file's bytes,
\* whatever the expiry time of its entry.
C3_NotFoundIffNoFile ==
    last.op = "fetch"
    => /\ last.status = 404 <=> last.name \notin DOMAIN files
       /\ last.status # 404 =>
            (last.status = 200 /\ last.body = <<"file", files[last.name]>>)

\* C3 witness: a fetch that served an artifact whose expiry had passed.
C3_ExpiredServed ==
    /\ last.op = "fetch"
    /\ last.name \in DOMAIN pdf_files
    /\ clock > pdf_files[last.name]
    /\ last.status = 200

\* C4: an artifact in the Store whose expires_at has not passed is served at
\* every moment, and no sweep cycle deletes or changes the file or the Store
\* entry of an artifact whose expires_at has not passed at the cycle's
\* captured time.
C4_SweepKeepsUnexpired ==
    /\ [](\A f \in DOMAIN pdf_files :
            ~(clock > pdf_files[f]) => StaticGet(files, f).status = 200)
    /\ [][SweepStep =>
          \A f \in DOMAIN pdf_files :
              ~(clock > pdf_files[f]) =>
                  /\ f \in DOMAIN pdf_files' /\ pdf_files'[f] = pdf_files[f]
                  /\ f \in DOMAIN files => (f \in DOMAIN files' /\ files'[f] = files[f])
                  /\ StaticGet(files', f) = StaticGet(files, f)]_vars

\* C4 witness: a sweep cycle has run at the very second an entry expires,
\* has removed an expired entry, and the entry at its expiry is still served.
C4_KeptAtExpiry ==
    /\ last.op = "sweep"
    /\ last.removed # {}
    /\ \E f \in DOMAIN pdf_files :
          clock = pdf_files[f] /\ StaticGet(files, f).status = 200

C6_RoundTrip ==
    \A p \in pubs :
        StaticGet(files, MountedName(p.url)) = [status |-> 200, body |-> p.content]

\* C7: no publish generates the id of an earlier artifact: the file name it
\* writes is neither in the directory nor in the Store.
C7_IdsNeverReused ==
    [][\A r \in Requests :
        (Responded(r) /\ last'.wrote # "none") =>
            last'.name \notin (DOMAIN files \cup DOMAIN pdf_files)]_vars

\* C8: a POST /text-input with oversized text ends at once, with no upstream
\* call made and no file written or entry registered.
C8_OversizedNoUpstreamCall ==
    [][\A r \in Requests :
        (Arrived(r) /\ last'.len > MAX_TEXT_LEN) =>
            /\ req'[r].pc = "done"
            /\ req'[r].calls = 0
            /\ last'.op = "reject" /\ last'.status >= 400
            /\ files' = files /\ pdf_files' = pdf_files]_vars

\* C8 witness: an oversized request was rejected while artifacts are
\* published and another request is waiting for the upstream.
C8_Rejected ==
    /\ last.op = "reject"
    /\ last.len > MAX_TEXT_LEN
    /\ req[last.r].pc = "done" /\ req[last.r].calls = 0
    /\ DOMAIN pdf_files # {}

\* C9: a request whose upstream call fails (non-200, network error, timeout)
\* answers an error, leaves the Store and the directory as they were and has
\* called the upstream once.
C9_UpstreamFailurePublishesNothing ==
    [][\A r \in Requests :
        (Responded(r) /\ ~UpstreamOk(last'.upstream)) =>
            /\ last'.status >= 400
            /\ files' = files /\ pdf_files' = pdf_files
            /\ req'[r].calls = 1 /\ req[r].calls = 1]_vars

\* C9 witness: a request failed on an upstream timeout and answered 500,
\* with an earlier artifact in the Store.
C9_FailedOnTimeout ==
    /\ last.op = "respond"
    /\ last.upstream.kind = "TimeoutException"
    /\ last.status = 500
    /\ DOMAIN pdf_files # {}

\* C10: a publish whose file write fails ends the request with status 500
\* and leaves the Store unchanged.
C10_WriteFailureNotRegistered ==
    [][\A r \in Requests :
        (Responded(r) /\ last'.wrote \in {"open_fail", "write_fail"}) =>
            /\ last'.status = 500
            /\ pdf_files' = pdf_files]_vars

\* C10 witness: a write failed after the file was opened: the file is in the
\* directory, its id is not in the Store, the answer is 500.
C10_WriteFailed ==
    /\ last.op = "respond"
    /\ last.wrote = "write_fail"
    /\ last.status = 500
    /\ last.name \in DOMAIN files
    /\ last.name \notin DOMAIN pdf_files

\* C12: in a sweep cycle every expired entry's metadata is removed from the
\* Store, also when deleting its file fails.
C12_MetadataRemovedOnFailure ==
    [][SweepStep =>
        \A f \in DOMAIN pdf_files :
            clock > pdf_files[f] => f \notin DOMAIN pdf_files']_vars

\* C13: every id in the Store has its file in the directory.
C13_StoreEntriesHaveFiles ==
    \A f \in DOMAIN pdf_files : f \in DOMAIN files

\* C13 witness: a sweep cycle has removed an artifact and another artifact
\* is in the Store with its file.
C13_EntryWithFileAfterSweep ==
    /\ last.op = "sweep"
    /\ last.removed # {}
    /\ \E f \in DOMAIN pdf_files : f \in DOMAIN files

\* C15: a sweep cycle that finds no expired entry leaves the Store and the
\* directory unchanged.
C15_NoOpSweep ==
    [][(SweepStep /\ \A f \in DOMAIN pdf_files : ~(clock > pdf_files[f])) =>
        (pdf_files' = pdf_files /\ files' = files)]_vars

\* C15 witness: a sweep cycle ran over a Store holding only unexpired
\* entries and removed nothing.
C15_SweptNothing ==
    /\ last.op = "sweep"
    /\ last.removed = {} /\ last.failed = {}
    /\ DOMAIN pdf_files # {}
    /\ DOMAIN files # {}

\* C17: the expires_at of an entry that remains in the Store never changes.
C17_ExpiryNeverChanges ==
    [][\A f \in DOMAIN pdf_files :
        f \in DOMAIN pdf_files' => pdf_files'[f] = pdf_files[f]]_vars

\* C19: every file in the directory has an entry in the Store.
C19_NoUntrackedFile ==
    \A f \in DOMAIN files : f \in DOMAIN pdf_files

\* C20: a POST /text-input whose conversion succeeds has written one file
\* with the upstream's bytes and registered one entry, one hour ahead, before
\* it answers, with the URL or with the bytes alike; nothing else changes.
C20_SuccessPublishesOne ==
    [][\A r \in Requests :
        /\ (Responded(r) /\ last'.status = 200) =>
              LET f == last'.name
              IN  /\ UpstreamOk(last'.upstream)
                  /\ last'.body[1] \in {"json", "pdf"}
                  /\ DOMAIN files' = DOMAIN files \cup {f}
                  /\ DOMAIN pdf_files' = DOMAIN pdf_files \cup {f}
                  /\ files'[f] = last'.upstream.content
                  /\ pdf_files'[f] = clock' + TTL_SECONDS
                  /\ \A g \in DOMAIN files \ {f} : files'[g] = files[g]
                  /\ \A g \in DOMAIN pdf_files \ {f} : pdf_files'[g] = pdf_files[g]
        /\ (Responded(r) /\ UpstreamOk(last'.upstream) /\ last'.wrote = "ok") =>
              last'.status = 200]_vars

\* C20 witness: a request answered with the PDF bytes, not the URL, and its
\* artifact is in the Store and in the directory.
C20_BytesModePublished ==
    /\ last.op = "respond"
    /\ last.status = 200
    /\ last.body[1] = "pdf"
    /\ last.name \in DOMAIN pdf_files
    /\ last.name \in DOMAIN files

\* C14: no sweep cycle ends the sweeper task, whatever removals fail in it,
\* and every cycle whose sleep is over runs and reaches its next sleep.
C14_SweeperNeverStops ==
    /\ [](sweeper = "sleeping")
    /\ (clock >= wake) ~> (wake > clock)

\* C14 witness: a cycle in which a removal failed has reached its sleep.
C14_SleepsAfterFailure ==
    /\ last.op = "sweep"
    /\ last.failed # {}
    /\ sweeper = "sleeping"
    /\ wake = clock + SLEEP_SECONDS

\* C16: a sweep cycle that follows a cycle in which an entry was already
\* expired finds nothing of that entry to remove: the entry is neither
\* removed nor fails to be removed in it.
C16_SecondSweepFindsNothing ==
    [][SweepStep =>
         \A f \in DOMAIN pdf_files :
            wake - SLEEP_SECONDS > pdf_files[f] =>
               /\ f \notin last'.removed
               /\ f \notin last'.failed]_vars

\* C18: with the sweeper waking on time and every removal succeeding, an
\* artifact is in the store and on disk no later than one sweep interval
\* after its expiry; a cycle removes what is past its expiry and keeps the
\* entry whose expiry is the cycle's captured time.
C18_RetentionBounded ==
    /\ [](\A f \in DOMAIN pdf_files \cup DOMAIN files :
            /\ f \in DOMAIN pdf_files
            /\ clock <= pdf_files[f] + SLEEP_SECONDS)
    /\ [][SweepStep =>
            \A f \in DOMAIN pdf_files :
               /\ clock > pdf_files[f] =>
                     f \notin DOMAIN pdf_files' /\ f \notin DOMAIN files'
               /\ clock = pdf_files[f] =>
                     f \in DOMAIN pdf_files' /\ f \in DOMAIN files']_vars

\* C18 witness: an entry kept by the cycle that ran at its expiry is still
\* there one interval later, when the next cycle is due.
C18_KeptOneInterval ==
    /\ clock = wake
    /\ \E f \in DOMAIN pdf_files :
          /\ clock = pdf_files[f] + SLEEP_SECONDS
          /\ f \in DOMAIN files

\* C11: /fixed-input accepts a request exactly when its text is "go" in some
\* mix of cases: any other text is answered 400 with no upstream call and
\* nothing published, a matching text posts the fixed markdown upstream once,
\* and the answer to an upstream 200 whose file is written is 200 with the
\* artifact in the store and on disk.
GoForms == {<<"g", "o">>, <<"G", "O">>, <<"G", "o">>, <<"g", "O">>}
C11_FixedInputAcceptsGo ==
    [][\A r \in Requests :
         /\ Arrived(r) =>
               IF last'.text \in GoForms
               THEN /\ req'[r].pc = "awaiting"
                    /\ req'[r].calls = 1
                    /\ last'.op = "post"
                    /\ last'.len = 48
               ELSE /\ req'[r].pc = "done"
                    /\ req'[r].calls = 0
                    /\ last'.status = 400
                    /\ pdf_files' = pdf_files
                    /\ files' = files
         /\ Responded(r) /\ UpstreamOk(last'.upstream) /\ last'.wrote = "ok" =>
               /\ last'.status = 200
               /\ last'.name \in DOMAIN pdf_files'
               /\ last'.name \in DOMAIN files'
               /\ files'[last'.name] = last'.upstream.content]_vars

\* C11 witness: a request whose text was accepted has been answered with the
\* URL of the artifact published for it.
C11_FixedPublished ==
    /\ last.op = "respond"
    /\ last.status = 200
    /\ last.body[1] = "json"
    /\ last.name \in DOMAIN pdf_files
    /\ last.name \in DOMAIN files

====
